---------------------------- MODULE Spec2Model ----------------------------
(***************************************************************************)
(* Model of the kwik stream resolver of src/src/api.rs (AnimeClient):      *)
(* the custom cipher decoder unpack_custom_kwik, the generic packer        *)
(* decoder unpack_dean_edwards, the reference extractors and the           *)
(* orchestrator extract_stream_url.                                        *)
(*                                                                         *)
(* Representation.  A Rust String is the sequence of its UTF-8 bytes, a    *)
(* byte being a number 0..255; all the literal text of the model is ASCII, *)
(* where byte and character coincide.  A run of \d captured by a regex is  *)
(* a sequence of digit values 0..9, with NonAsciiDigit standing for a      *)
(* decimal digit outside ASCII (the regex crate's \d is Unicode-aware,     *)
(* str::parse is not).  An HTML page is the record of what the regexes of  *)
(* the program capture in it.                                              *)
(***************************************************************************)
EXTENDS Integers, Sequences, FiniteSets, TLC

VARIABLES
    overflow_checks, \* build profile: TRUE = arithmetic overflow panics (dev), FALSE = wraps (release)
    cin,             \* SpecCipher: the html handed to unpack_custom_kwik
    plain,           \* SpecCipher: the bytes cin was encoded from, or NoPlain
    cout,            \* SpecCipher: what unpack_custom_kwik returned, or Pending
    pin,             \* SpecPacker: the arguments of unpack_dean_edwards
    pout,            \* SpecPacker: what unpack_dean_edwards returned, or Pending
    xin,             \* SpecExtract: the text handed to extract_m3u8
    xout,            \* SpecExtract: what extract_m3u8 returned, or Pending
    app,             \* SpecHistory, SpecApp: the fields of the App struct of src/src/main.rs
    recorded,        \* SpecHistory, SpecApp: the last call of record_history, or NotRecorded
    running,         \* SpecApp: run_app is in its loop
    keys,            \* SpecApp: the number of key events handled so far
    render_clamps,   \* SpecApp: the List widget's render adjusts a selection out of range
    files,           \* SpecHistory, SpecApp: whether library.json and history.json hold what the App holds
    kwik_url,        \* Spec: the argument of extract_stream_url
    pc,              \* Spec: where extract_stream_url stands
    fetches,         \* Spec: the GET requests sent so far, each with its Referer
    responses,       \* Spec: what each request came back with
    steps,           \* Spec: the steps taken so far, in order
    tried,           \* Spec: the decoders and extractors each decode stage ran, in order
    result           \* Spec: what extract_stream_url returned, or Pending

cipherVars == <<cin, plain, cout>>
packerVars == <<pin, pout>>
extractVars == <<xin, xout>>
appVars == <<app, recorded, running, keys, render_clamps, files>>
resolveVars == <<kwik_url, pc, fetches, responses, steps, tried, result>>
vars == <<overflow_checks, cipherVars, packerVars, extractVars, resolveVars, appVars>>

Pending == [kind |-> "Pending"]

---------------------------------------------------------------------------
(* Text helpers *)

Printable ==
    <<" ", "!", "\"", "#", "$", "%", "&", "'", "(", ")", "*", "+", ",", "-", ".", "/",
      "0", "1", "2", "3", "4", "5", "6", "7", "8", "9", ":", ";", "<", "=", ">", "?",
      "@", "A", "B", "C", "D", "E", "F", "G", "H", "I", "J", "K", "L", "M", "N", "O",
      "P", "Q", "R", "S", "T", "U", "V", "W", "X", "Y", "Z", "[", "\\", "]", "^", "_",
      "(backtick)", "a", "b", "c", "d", "e", "f", "g", "h", "i", "j", "k", "l", "m", "n", "o",
      "p", "q", "r", "s", "t", "u", "v", "w", "x", "y", "z", "{", "|", "}", "~">>

\* The ASCII code of a one-character string.
Ord(c) == 31 + (CHOOSE i \in 1..Len(Printable) : Printable[i] = c)

\* The bytes of an ASCII literal written as a tuple of one-character strings.
Str(s) == [i \in 1..Len(s) |-> Ord(s[i])]

Bytes == 0..255

RECURSIVE Concat(_)
Concat(ss) == IF ss = <<>> THEN <<>> ELSE Head(ss) \o Concat(Tail(ss))

\* Whether lit occurs in s at (1-based) position i.
MatchAt(s, i, lit) ==
    /\ i >= 1
    /\ i + Len(lit) - 1 <= Len(s)
    /\ \A k \in 1..Len(lit) : s[i + k - 1] = lit[k]

---------------------------------------------------------------------------
(* str::parse::<i64 | u32 | usize> of a captured \d+ *)

NonAsciiDigit == 10

I64Max == <<9,2,2,3,3,7,2,0,3,6,8,5,4,7,7,5,8,0,7>>
U32Max == <<4,2,9,4,9,6,7,2,9,5>>
UsizeMax == <<1,8,4,4,6,7,4,4,0,7,3,7,0,9,5,5,1,6,1,5>>

RECURSIVE StripZeros(_)
StripZeros(d) == IF Len(d) > 1 /\ Head(d) = 0 THEN StripZeros(Tail(d)) ELSE d

RECURSIVE DecLeq(_, _)
\* a <= b for digit sequences of the same length
DecLeq(a, b) ==
    IF a = <<>> THEN TRUE
    ELSE IF Head(a) # Head(b) THEN Head(a) < Head(b)
    ELSE DecLeq(Tail(a), Tail(b))

RECURSIVE DecValue(_, _)
DecValue(d, acc) == IF d = <<>> THEN acc ELSE DecValue(Tail(d), acc * 10 + Head(d))

\* Ok with the value, or Err (a non-ASCII digit, or a value above max).
ParseInt(d, max) ==
    LET s == StripZeros(d) IN
    IF \E i \in 1..Len(d) : d[i] = NonAsciiDigit THEN [ok |-> FALSE, value |-> 0]
    ELSE IF Len(s) > Len(max) \/ (Len(s) = Len(max) /\ ~DecLeq(s, max))
         THEN [ok |-> FALSE, value |-> 0]
    ELSE [ok |-> TRUE, value |-> DecValue(s, 0)]

---------------------------------------------------------------------------
(* Unsigned machine integers wider than TLC integers: little-endian limbs of 16 bits *)

LimbBase == 256 * 256

U128Limbs == 8

Zero(n) == [i \in 1..n |-> 0]

RECURSIVE MulAddFrom(_, _, _, _)
MulAddFrom(v, m, carry, i) ==
    IF i > Len(v) THEN [limbs |-> <<>>, carry |-> carry]
    ELSE LET t == v[i] * m + carry
             rest == MulAddFrom(v, m, t \div LimbBase, i + 1)
         IN  [limbs |-> <<t % LimbBase>> \o rest.limbs, carry |-> rest.carry]

\* v * m + a in the width of v: the wrapped result, and whether it overflowed.
MulAdd(v, m, a) ==
    LET r == MulAddFrom(v, m, a, 1) IN [limbs |-> r.limbs, overflow |-> r.carry # 0]

\* Whether the value fits a TLC integer (below 2^30), and then the value.
IsSmall(v) == (\A i \in 3..Len(v) : v[i] = 0) /\ (Len(v) < 2 \/ v[2] < 128 * 128)
SmallValue(v) == v[1] + (IF Len(v) >= 2 THEN v[2] * LimbBase ELSE 0)

---------------------------------------------------------------------------
(* String::from_utf8_lossy: every maximal invalid part becomes U+FFFD *)

Replacement == <<239, 191, 189>>

IsCont(b) == b >= 128 /\ b <= 191

\* UTF8_CHAR_WIDTH of a lead byte (0: no lead byte).
Utf8Width(b) ==
    IF b < 128 THEN 1
    ELSE IF b >= 194 /\ b <= 223 THEN 2
    ELSE IF b >= 224 /\ b <= 239 THEN 3
    ELSE IF b >= 240 /\ b <= 244 THEN 4
    ELSE 0

\* The second byte a lead byte of width 3 or 4 admits.
SecondOk(lead, b) ==
    IF lead = 224 THEN b >= 160 /\ b <= 191
    ELSE IF lead = 237 THEN b >= 128 /\ b <= 159
    ELSE IF lead = 240 THEN b >= 144 /\ b <= 191
    ELSE IF lead = 244 THEN b >= 128 /\ b <= 143
    ELSE IsCont(b)

\* The length of the valid character at the head of bs (0: none), and the length
\* of the invalid part to replace when there is none.
Utf8Head(bs) ==
    LET w == Utf8Width(bs[1])
        has(k) == Len(bs) >= k
    IN  IF w = 1 THEN [valid |-> 1, skip |-> 0]
        ELSE IF w = 0 THEN [valid |-> 0, skip |-> 1]
        ELSE IF w = 2 THEN
            IF has(2) /\ IsCont(bs[2]) THEN [valid |-> 2, skip |-> 0]
            ELSE [valid |-> 0, skip |-> 1]
        ELSE IF ~(has(2) /\ SecondOk(bs[1], bs[2])) THEN [valid |-> 0, skip |-> 1]
        ELSE IF ~(has(3) /\ IsCont(bs[3])) THEN [valid |-> 0, skip |-> 2]
        ELSE IF w = 3 THEN [valid |-> 3, skip |-> 0]
        ELSE IF ~(has(4) /\ IsCont(bs[4])) THEN [valid |-> 0, skip |-> 3]
        ELSE [valid |-> 4, skip |-> 0]

RECURSIVE Utf8Lossy(_)
Utf8Lossy(bs) ==
    IF bs = <<>> THEN <<>>
    ELSE LET h == Utf8Head(bs) IN
         IF h.valid > 0
         THEN SubSeq(bs, 1, h.valid) \o Utf8Lossy(SubSeq(bs, h.valid + 1, Len(bs)))
         ELSE Replacement \o Utf8Lossy(SubSeq(bs, h.skip + 1, Len(bs)))

---------------------------------------------------------------------------
(* unpack_custom_kwik *)

\* What eval_re captures in a page without an invocation of the cipher.
NoInvocation == [present |-> FALSE, cipher |-> <<>>, mu |-> <<>>, bu |-> <<>>, fo |-> <<>>]

Quote == Ord("\"")

\* What eval_re captures of an invocation written with these arguments: the
\* groups cipher and mu are [^"]+, bu and fo are \d+.
Invocation(cipher, mu, bu, fo) ==
    IF \/ cipher = <<>> \/ mu = <<>> \/ bu = <<>> \/ fo = <<>>
       \/ \E i \in 1..Len(cipher) : cipher[i] = Quote
       \/ \E i \in 1..Len(mu) : mu[i] = Quote
    THEN NoInvocation
    ELSE [present |-> TRUE, cipher |-> cipher, mu |-> mu, bu |-> bu, fo |-> fo]

\* charset_chars.iter().position(|&c| c == ch): the first index (from 0), or -1.
RECURSIVE PositionFrom(_, _, _)
PositionFrom(charset_chars, ch, i) ==
    IF i > Len(charset_chars) THEN -1
    ELSE IF charset_chars[i] = ch THEN i - 1
    ELSE PositionFrom(charset_chars, ch, i + 1)

Position(charset_chars, ch) == PositionFrom(charset_chars, ch, 1)

\* Where the segments of s end: before each separator, and at the end of s.
SegmentEnds(s, sep) == {i \in 1..Len(s) : s[i] = sep} \cup {Len(s) + 1}

\* The k-th (from 1) of a set of positions.
Kth(positions, k) == CHOOSE p \in positions : Cardinality({q \in positions : q < p}) = k - 1

\* The segment that ends at end: it starts after the separator before it.
SegmentTo(s, ends, end) ==
    SubSeq(s, IF \E q \in ends : q < end
              THEN 1 + CHOOSE q \in ends : q < end /\ \A r \in ends : r < end => r <= q
              ELSE 1,
           end - 1)

\* The segments in the order of their ends.
Segments(s, ends) == [k \in 1..Cardinality(ends) |-> SegmentTo(s, ends, Kth(ends, k))]

\* str::split on one character: the segments between the separators, empty ones kept.
Split(s, sep) == Segments(s, SegmentEnds(s, sep))

\* decimal = decimal * (radix as u128) + (pos as u128), r being the wrapped
\* result and whether it overflowed.
SegmentStepped(acc, r) == [limbs |-> r.limbs, overflow |-> acc.overflow \/ r.overflow]

\* The body of the inner loop for a character found at pos in the charset
\* (-1: not found, the character is skipped).
SegmentStep(acc, radix, pos) ==
    IF pos < 0 THEN acc ELSE SegmentStepped(acc, MulAdd(acc.limbs, radix, pos))

RECURSIVE SegmentValue(_, _, _, _, _)
\* The inner loop: decimal = decimal * radix + pos over the characters found in
\* the charset. The wrapped u128, and whether a step overflowed; in a build
\* that checks overflow the loop ends with the step that overflows.
SegmentValue(segment, charset_chars, radix, checks, acc) ==
    IF segment = <<>> \/ (acc.overflow /\ checks) THEN acc
    ELSE SegmentValue(Tail(segment), charset_chars, radix, checks,
                      SegmentStep(acc, radix, Position(charset_chars, Head(segment))))

\* CharCode with the upper end of the byte range excluded (char_code < 255).
CharCode_DropsMax(decimal, offset) ==
    IF IsSmall(decimal) /\ SmallValue(decimal) >= offset
       /\ SmallValue(decimal) - offset < 255
    THEN [keep |-> TRUE, byte |-> SmallValue(decimal) - offset, overflow |-> FALSE]
    ELSE [keep |-> FALSE, byte |-> 0, overflow |-> FALSE]

\* (decimal as i128) - (offset as i128), as far as the test 0..=255 needs it:
\* the byte when the difference is in range, else dropped; subtracting from a
\* negative i128 may itself overflow.
CharCode(decimal, offset) ==
    LET top == decimal[U128Limbs]
        negative == top >= LimbBase \div 2
        magnitude == [decimal EXCEPT ![U128Limbs] = top % (LimbBase \div 2)]
    IN  IF negative
        THEN [keep |-> FALSE, byte |-> 0,
              overflow |-> IsSmall(magnitude) /\ SmallValue(magnitude) < offset]
        ELSE IF IsSmall(decimal) /\ SmallValue(decimal) >= offset
                /\ SmallValue(decimal) - offset <= 255
             THEN [keep |-> TRUE, byte |-> SmallValue(decimal) - offset, overflow |-> FALSE]
             ELSE [keep |-> FALSE, byte |-> 0, overflow |-> FALSE]

\* if (0..=255).contains(&char_code) { decoded_bytes.push(char_code as u8) }
PushByte(acc, decimal, char_code) ==
    [bytes |-> IF char_code.keep THEN Append(acc.bytes, char_code.byte) ELSE acc.bytes,
     overflow |-> acc.overflow \/ decimal.overflow \/ char_code.overflow]

\* The body of the outer loop for a segment whose value is decimal.
PushSegment(acc, decimal, offset) == PushByte(acc, decimal, CharCode(decimal.limbs, offset))

RECURSIVE DecodeSegments(_, _, _, _, _, _)
\* The outer loop over the segments: the bytes pushed, and whether an
\* arithmetic overflow happened on the way. In a build that checks overflow
\* the loop ends with the step that overflows.
DecodeSegments(segments, charset_chars, radix, offset, checks, acc) ==
    IF segments = <<>> \/ (acc.overflow /\ checks) THEN acc
    ELSE IF Head(segments) = <<>>
    THEN DecodeSegments(Tail(segments), charset_chars, radix, offset, checks, acc)
    ELSE DecodeSegments(Tail(segments), charset_chars, radix, offset, checks,
            PushSegment(acc,
                        SegmentValue(Head(segments), charset_chars, radix, checks,
                                     [limbs |-> Zero(U128Limbs), overflow |-> FALSE]),
                        offset))

CipherNone == [kind |-> "None", text |-> <<>>, bytes |-> <<>>, err |-> ""]
CipherErr(e) == [kind |-> "Err", text |-> <<>>, bytes |-> <<>>, err |-> e]
CipherPanic(e) == [kind |-> "Panic", text |-> <<>>, bytes |-> <<>>, err |-> e]

\* Ok(Some(String::from_utf8_lossy(&decoded_bytes).to_string())), unless a step
\* of the loops overflowed in a build that checks overflow.
CipherSome(d, checks) ==
    IF d.overflow /\ checks THEN CipherPanic("arithmetic overflow")
    ELSE [kind |-> "Some", text |-> Utf8Lossy(d.bytes), bytes |-> d.bytes, err |-> ""]

\* unpack_custom_kwik from the captures on: offset and radix are the results
\* of the two parse calls, the charset is html.mu.
UnpackCaptures(html, offset, radix, checks) ==
    IF ~offset.ok THEN CipherErr("ParseIntError")
    ELSE IF ~radix.ok THEN CipherErr("ParseIntError")
    ELSE IF radix.value >= Len(html.mu) THEN CipherPanic("index out of bounds")
    ELSE CipherSome(DecodeSegments(Split(html.cipher, html.mu[radix.value + 1]), html.mu,
                                   radix.value, offset.value, checks,
                                   [bytes |-> <<>>, overflow |-> FALSE]),
                    checks)

\* Result<Option<String>> of unpack_custom_kwik(html), or a panic. bytes is
\* decoded_bytes, text the String made of it.
UnpackCustomKwik(html, checks) ==
    IF ~html.present THEN CipherNone
    ELSE UnpackCaptures(html, ParseInt(html.bu, I64Max), ParseInt(html.fo, U32Max), checks)

---------------------------------------------------------------------------
(* unpack_dean_edwards *)

UsizeLimbs == 4

\* chars: "0123456789abcdefghijklmnopqrstuvwxyzABCDEFGHIJKLMNOPQRSTUVWXYZ"
Chars62 == [i \in 1..62 |-> IF i <= 10 THEN 47 + i ELSE IF i <= 36 THEN 86 + i ELSE 28 + i]

\* chars.find(ch) for every character: its position in chars, or -1.
Chars62Find == [b \in Bytes |-> Position(Chars62, b)]

\* \w, for the ASCII text of the model: a letter, a digit or the underscore.
WordChars == {b \in Bytes : Chars62Find[b] >= 0} \cup {Ord("_")}
IsWordChar(b) == b \in WordChars

\* value = value * base + pos, r being the wrapped result of it.
TokenStepped(acc, r) ==
    [valid |-> TRUE, limbs |-> r.limbs, overflow |-> acc.overflow \/ r.overflow]

\* The body of the loop for a character found at pos in chars (-1: not found).
TokenStep(acc, base, pos) ==
    IF pos < 0 \/ pos >= base THEN [acc EXCEPT !.valid = FALSE]
    ELSE TokenStepped(acc, MulAdd(acc.limbs, base, pos))

RECURSIVE TokenValue(_, _, _)
\* The loop over token.chars(): it stops (valid = false) at the first character
\* that is no digit below base; value = value * base + pos wraps in usize.
TokenValue(token, base, acc) ==
    IF token = <<>> \/ ~acc.valid THEN acc
    ELSE TokenValue(Tail(token), base, TokenStep(acc, base, Chars62Find[Head(token)]))

\* if valid && value < keywords.len() && !keywords[value].is_empty()
\* { keywords[value] } else { token }, for the value v of the token.
Replacing(token, keywords, v) ==
    [text |-> IF /\ v.valid
                 /\ IsSmall(v.limbs)
                 /\ SmallValue(v.limbs) < Len(keywords)
                 /\ keywords[SmallValue(v.limbs) + 1] # <<>>
              THEN keywords[SmallValue(v.limbs) + 1]
              ELSE token,
     overflow |-> v.overflow]

\* The closure given to replace_all: the text that replaces the token.
ReplaceToken(token, base, keywords) ==
    Replacing(token, keywords,
              TokenValue(token, base,
                         [valid |-> TRUE, limbs |-> Zero(UsizeLimbs), overflow |-> FALSE]))

\* The end of the maximal run of word characters that starts at i.
RECURSIVE RunEnd(_, _)
RunEnd(s, i) == IF i < Len(s) /\ IsWordChar(s[i + 1]) THEN RunEnd(s, i + 1) ELSE i

\* The output of replace_all: a piece followed by the rest.
Pieces(piece, rest) ==
    [text |-> piece.text \o rest.text, overflow |-> piece.overflow \/ rest.overflow]

RECURSIVE ReplaceAll(_, _, _, _)
\* The match of \b\w+\b that spans i..j replaced, then the rest from j + 1 on.
ReplaceRun(packed, i, j, base, keywords) ==
    Pieces(ReplaceToken(SubSeq(packed, i, j), base, keywords),
           ReplaceAll(packed, j + 1, base, keywords))

\* word_re.replace_all(packed, ...) from position i on: every match of \b\w+\b
\* replaced, the rest copied.
ReplaceAll(packed, i, base, keywords) ==
    IF i > Len(packed) THEN [text |-> <<>>, overflow |-> FALSE]
    ELSE IF IsWordChar(packed[i])
    THEN ReplaceRun(packed, i, RunEnd(packed, i), base, keywords)
    ELSE Pieces([text |-> <<packed[i]>>, overflow |-> FALSE],
                ReplaceAll(packed, i + 1, base, keywords))

\* Ok(result.to_string()), unless a token's value overflowed in a build that
\* checks overflow.
PackerOk(r, checks) ==
    IF r.overflow /\ checks THEN [kind |-> "Panic", text |-> <<>>]
    ELSE [kind |-> "Ok", text |-> r.text]

\* Result<String> of unpack_dean_edwards(packed, base, keywords), or a panic.
UnpackDeanEdwards(packed, base, keywords, checks) ==
    PackerOk(ReplaceAll(packed, 1, base, keywords), checks)

---------------------------------------------------------------------------
(* The reference extractors *)

\* \s, for the ASCII text of the model.
SpaceChars == {9, 10, 11, 12, 13, 32}

\* [a-zA-Z0-9]
AlnumChars == {b \in Bytes : Chars62Find[b] >= 0}


Apostrophe == Ord("'")
Equals == Ord("=")

\* The literals of the patterns.
LitVar == Str(<<"v","a","r">>)
LitUrl == Str(<<"u","r","l">>)
LitSlashE == Str(<<"/","e","/">>)
LitHttps == Str(<<"h","t","t","p","s",":","/","/">>)
LitHttp == Str(<<"h","t","t","p",":","/","/">>)
LitSlashF == Str(<<"/","f","/">>)

NotApostrophe == Bytes \ {Apostrophe}
NotQuotes == Bytes \ {Apostrophe, Quote}

RECURSIVE SkipWhile(_, _, _)
\* The first position from i on whose character is not in class (Len + 1: none).
SkipWhile(s, i, class) ==
    IF i >= 1 /\ i <= Len(s) /\ s[i] \in class THEN SkipWhile(s, i + 1, class) ELSE i

Found(from, to) == [found |-> TRUE, from |-> from, to |-> to]
NotFound == [found |-> FALSE, from |-> 0, to |-> 0]

\* The leftmost of a non-empty set of positions.
Leftmost(hits) == CHOOSE i \in hits : \A j \in hits : i <= j

\* The text of a match, as an Option.
Captured(s, m) ==
    IF m.found THEN [found |-> TRUE, text |-> SubSeq(s, m.from, m.to)]
    ELSE [found |-> FALSE, text |-> <<>>]

\* url_re = var\s+url\s*=\s*'(/e/[^']+)' at position i: the span of group 1.
UrlReAt(s, i) ==
    LET a == i + 3
        b == SkipWhile(s, a, SpaceChars)
        c == SkipWhile(s, b + 3, SpaceChars)
        d == SkipWhile(s, c + 1, SpaceChars)
        e == SkipWhile(s, d + 4, NotApostrophe)
    IN  IF /\ MatchAt(s, i, LitVar)
           /\ b > a
           /\ MatchAt(s, b, LitUrl)
           /\ c <= Len(s) /\ s[c] = Equals
           /\ d <= Len(s) /\ s[d] = Apostrophe
           /\ MatchAt(s, d + 1, LitSlashE)
           /\ e > d + 4
           /\ e <= Len(s)
        THEN Found(d + 1, e - 1)
        ELSE NotFound

\* The match of url_re at the leftmost of the positions where it matches.
UrlReFirst(s, hits) == IF hits = {} THEN NotFound ELSE UrlReAt(s, Leftmost(hits))

\* url_re.captures(&decoded): group 1 of the leftmost match.
UrlRe(s) == Captured(s, UrlReFirst(s, {i \in 1..Len(s) : UrlReAt(s, i).found}))

DotM3u8 == Str(<<".","m","3","u","8">>)

\* m3u8_re = https?://[^'"]+\.m3u8 at position i: [^'"]+ is greedy, so the match
\* ends with the last ".m3u8" before the next quote character.
M3u8ReAt(s, i) ==
    LET a == IF MatchAt(s, i, LitHttps) THEN i + 8
             ELSE IF MatchAt(s, i, LitHttp) THEN i + 7
             ELSE 0
        z == SkipWhile(s, a, NotQuotes) - 1
        ends == {e \in (a + Len(DotM3u8))..z : MatchAt(s, e - Len(DotM3u8) + 1, DotM3u8)}
    IN  IF a > 0 /\ ends # {}
        THEN Found(i, CHOOSE e \in ends : \A f \in ends : f <= e)
        ELSE NotFound

\* The match of m3u8_re at the leftmost of the positions where it matches.
M3u8ReFirst(s, hits) == IF hits = {} THEN NotFound ELSE M3u8ReAt(s, Leftmost(hits))

\* extract_m3u8(text): Some(the leftmost match), or None.
ExtractM3u8(text) ==
    Captured(text, M3u8ReFirst(text, {i \in 1..Len(text) : M3u8ReAt(text, i).found}))

KwikOrigin == Str(<<"h","t","t","p","s",":","/","/","k","w","i","k",".","c","x">>)

\* The fallback url_re = https://kwik\.cx/e/[a-zA-Z0-9]+ at position i.
FallbackReAt(s, i) ==
    LET a == i + Len(KwikOrigin) + 3
        e == SkipWhile(s, a, AlnumChars)
    IN  IF MatchAt(s, i, KwikOrigin \o LitSlashE) /\ e > a
        THEN Found(i, e - 1)
        ELSE NotFound

\* The match of the fallback url_re at the leftmost of the positions where it matches.
FallbackReFirst(s, hits) == IF hits = {} THEN NotFound ELSE FallbackReAt(s, Leftmost(hits))

\* m.as_str().replace("https://kwik.cx", ""): the match less the origin it starts with.
WithoutOrigin(m) == IF m.found THEN Found(m.from + Len(KwikOrigin), m.to) ELSE NotFound

\* url_re.find(html), then m.as_str().replace("https://kwik.cx", ""): the tail
\* of the match has no second occurrence of the origin.
FallbackPath(html) ==
    Captured(html,
             WithoutOrigin(FallbackReFirst(html,
                              {i \in 1..Len(html) : FallbackReAt(html, i).found})))

\* slug_re = /f/([a-zA-Z0-9]+) finds a match in the url.
HasSlug(url) ==
    \E i \in 1..Len(url) :
        MatchAt(url, i, LitSlashF) /\ i + 3 <= Len(url) /\ url[i + 3] \in AlnumChars

---------------------------------------------------------------------------
(* decode_kwik_f_page, decode_kwik_embed_page *)

\* An HTML page: what eval_re captures in it (cipher), what packer_re captures
\* in it, match after match (packers), and its text outside of them (raw).
Page(cipher, packers, raw) == [cipher |-> cipher, packers |-> packers, raw |-> raw]

PackerInvocation(packed, base, keywords_str, separator) ==
    [packed |-> packed, base |-> base, keywords_str |-> keywords_str, separator |-> separator]

Ok(value, tr) == [kind |-> "Ok", value |-> value, err |-> "", tried |-> tr]
Err(e, tr) == [kind |-> "Err", value |-> <<>>, err |-> e, tried |-> tr]
Panic(e, tr) == [kind |-> "Panic", value |-> <<>>, err |-> e, tried |-> tr]

ErrParseInt == "ParseIntError"
ErrNoEmbedUrl == "Could not find embed URL in kwik /f/ page"
ErrNoM3u8 == "Could not find m3u8 URL in kwik embed page"
ErrNoSlug == "Could not extract slug from kwik URL"
ErrBuild == "Failed to build kwik client"
ErrReqwest == "reqwest::Error"

\* The end of decode_kwik_f_page: the fallback url_re over the html, then bail.
FPageFallback(fallback, tr) ==
    IF fallback.found THEN Ok(fallback.text, Append(tr, "fallback"))
    ELSE Err(ErrNoEmbedUrl, Append(tr, "fallback"))

\* if let Some(decoded) = ...: url_re over the decoded text, then extract_m3u8
\* of it, then the fallback.
FPageDecoded(url_match, m3u8, fallback) ==
    IF url_match.found THEN Ok(url_match.text, <<"cipher", "url_re">>)
    ELSE IF m3u8.found THEN Ok(m3u8.text, <<"cipher", "url_re", "m3u8">>)
    ELSE FPageFallback(fallback, <<"cipher", "url_re", "m3u8">>)

\* decode_kwik_f_page after self.unpack_custom_kwik(html) gave c.
FPageUnpacked(c, fallback) ==
    IF c.kind = "Err" THEN Err(c.err, <<"cipher">>)
    ELSE IF c.kind = "Panic" THEN Panic(c.err, <<"cipher">>)
    ELSE IF c.kind = "None" THEN FPageFallback(fallback, <<"cipher">>)
    ELSE FPageDecoded(UrlRe(c.text), ExtractM3u8(c.text), fallback)

\* Result<String> of decode_kwik_f_page(html, _slug), or a panic.
DecodeKwikFPage(html, checks) ==
    FPageUnpacked(UnpackCustomKwik(html.cipher, checks), FallbackPath(html.raw))

RECURSIVE PackerLoop(_, _, _, _)
\* if let Some(m3u8) = self.extract_m3u8(&decoded) { return Ok(m3u8) }, else
\* the next match.
PackerExtracted(m3u8, packers, i, checks, tr) ==
    IF m3u8.found THEN Ok(m3u8.text, tr)
    ELSE PackerLoop(packers, i + 1, checks, tr)

\* The body of the loop after self.unpack_dean_edwards(packed, base, &keywords) gave decoded.
PackerDecoded(decoded, packers, i, checks, tr) ==
    IF decoded.kind = "Panic" THEN Panic("arithmetic overflow", tr)
    ELSE PackerExtracted(ExtractM3u8(decoded.text), packers, i, checks, tr)

\* The body of the loop for the match caps, base being the result of
\* caps.get(2).parse::<usize>().
PackerCaps(caps, base, packers, i, checks, tr) ==
    IF ~base.ok THEN Err(ErrParseInt, tr)
    ELSE PackerDecoded(UnpackDeanEdwards(caps.packed, base.value,
                                         Split(caps.keywords_str, caps.separator), checks),
                       packers, i, checks, Append(tr, "packer"))

\* for caps in packer_re.captures_iter(html), from the i-th match on.
PackerLoop(packers, i, checks, tr) ==
    IF i > Len(packers) THEN Err(ErrNoM3u8, tr)
    ELSE PackerCaps(packers[i], ParseInt(packers[i].base, UsizeMax), packers, i, checks, tr)

\* if let Some(decoded) = ... { if let Some(m3u8) = self.extract_m3u8(&decoded)
\* { return Ok(m3u8) } }, then the packer loop.
EmbedPageDecoded(m3u8, html, checks) ==
    IF m3u8.found THEN Ok(m3u8.text, <<"cipher", "m3u8">>)
    ELSE PackerLoop(html.packers, 1, checks, <<"cipher", "m3u8", "packer_re">>)

\* decode_kwik_embed_page after unpack_custom_kwik gave c, giving up when the
\* page has no cipher invocation.
EmbedPageUnpacked_NoneIsFailure(c, html, checks) ==
    IF c.kind = "Err" THEN Err(c.err, <<"cipher">>)
    ELSE IF c.kind = "Panic" THEN Panic(c.err, <<"cipher">>)
    ELSE IF c.kind = "None" THEN Err(ErrNoM3u8, <<"cipher">>)
    ELSE EmbedPageDecoded(ExtractM3u8(c.text), html, checks)

\* decode_kwik_embed_page that gives up when the page has no cipher invocation.
DecodeKwikEmbedPage_NoneIsFailure(html, checks) ==
    EmbedPageUnpacked_NoneIsFailure(UnpackCustomKwik(html.cipher, checks), html, checks)

\* decode_kwik_embed_page that consults the packer invocations first (p is
\* the result of the packer loop) and the cipher only when none yields.
EmbedPagePacked_PackerFirst(p, c, html, checks) ==
    IF p.kind = "Ok" THEN p
    ELSE IF c.kind = "Err" THEN Err(c.err, <<"cipher">>)
    ELSE IF c.kind = "Panic" THEN Panic(c.err, <<"cipher">>)
    ELSE IF c.kind = "None" THEN PackerLoop(html.packers, 1, checks, <<"cipher", "packer_re">>)
    ELSE EmbedPageDecoded(ExtractM3u8(c.text), html, checks)

EmbedPageUnpacked_PackerFirst(c, html, checks) ==
    EmbedPagePacked_PackerFirst(PackerLoop(html.packers, 1, checks, <<"packer_re">>),
                                c, html, checks)

\* decode_kwik_embed_page after self.unpack_custom_kwik(html) gave c.
EmbedPageUnpacked(c, html, checks) ==
    IF c.kind = "Err" THEN Err(c.err, <<"cipher">>)
    ELSE IF c.kind = "Panic" THEN Panic(c.err, <<"cipher">>)
    ELSE IF c.kind = "None" THEN PackerLoop(html.packers, 1, checks, <<"cipher", "packer_re">>)
    ELSE EmbedPageDecoded(ExtractM3u8(c.text), html, checks)

\* Result<String> of decode_kwik_embed_page(html), or a panic.
DecodeKwikEmbedPage(html, checks) ==
    EmbedPageUnpacked(UnpackCustomKwik(html.cipher, checks), html, checks)

---------------------------------------------------------------------------
(* The forward scheme of the cipher, which the decoder reverses *)

RECURSIVE ToBase(_, _)
\* The digits of n in base radix >= 2, most significant first.
ToBase(n, radix) ==
    IF n < radix THEN <<n>> ELSE Append(ToBase(n \div radix, radix), n % radix)

Digits(n) == ToBase(n, 10)

Numeral(n, charset, radix) ==
    LET d == ToBase(n, radix) IN [i \in 1..Len(d) |-> charset[d[i] + 1]]

RECURSIVE Encode(_, _, _, _)
\* The numerals of byte + offset, joined by the separator charset[radix].
Encode(bytes, charset, offset, radix) ==
    IF bytes = <<>> THEN <<>>
    ELSE IF Len(bytes) = 1 THEN Numeral(bytes[1] + offset, charset, radix)
    ELSE Numeral(bytes[1] + offset, charset, radix) \o <<charset[radix + 1]>>
         \o Encode(Tail(bytes), charset, offset, radix)

---------------------------------------------------------------------------
(* SpecCipher: unpack_custom_kwik on bounded inputs *)

MaxPlainLen == 2
MaxCipherLen == 3

SeqsUpTo(S, n) == UNION {[1..k -> S] : k \in 0..n}

ByteVals == {0, 65, 128, 169, 195, 255}

\* (charset, radix) pairs with radix a valid index, with and without repeated characters.
EncodeParams ==
    { <<Str(<<"a","b","c">>), 2>>,
      <<Str(<<"a","b","c","d">>), 2>>,
      <<Str(<<"a","b","c","b">>), 2>>,
      <<Str(<<"a","b","a">>), 2>>,
      <<Str(<<"a","a","b">>), 2>>,
      <<Str(<<"a","b","c","a">>), 3>>,
      <<Str(<<"0","1","2","3","4","5","6","7","8","9",",">>), 10>> }

EncodeOffsets == {0, 3, 300}

NoPlain == [known |-> FALSE, bytes |-> <<>>, charset |-> <<>>, offset |-> 0, radix |-> 0]

EncodedInputs ==
    { [html |-> Invocation(Encode(bs, p[1], off, p[2]), p[1], Digits(off), Digits(p[2])),
       plain |-> [known |-> TRUE, bytes |-> bs, charset |-> p[1],
                  offset |-> off, radix |-> p[2]]] :
        bs \in SeqsUpTo(ByteVals, MaxPlainLen), p \in EncodeParams, off \in EncodeOffsets }

RawAlphabet == {Ord("a"), Ord("b"), Ord("c"), Ord("x")}

RawCharsets == {Str(<<"a","b","c">>), Str(<<"a","b">>), Str(<<"b","a","b">>)}

\* Captured radix and offset digits: small, past the end of every charset,
\* above the integer type, and not ASCII.
RawRadixes == {<<0>>, <<1>>, <<2>>, <<3>>, <<0,7>>, <<4,2,9,4,9,6,7,2,9,6>>, <<NonAsciiDigit>>}
RawOffsets == {<<0>>, <<1>>, <<9,2,2,3,3,7,2,0,3,6,8,5,4,7,7,5,8,0,8>>, <<NonAsciiDigit>>}

RawInputs ==
    { [html |-> Invocation(c, mu, bu, fo), plain |-> NoPlain] :
        c \in SeqsUpTo(RawAlphabet, MaxCipherLen), mu \in RawCharsets,
        bu \in RawOffsets, fo \in RawRadixes }

\* A charset of 95 distinct characters without the double quote: the digits
\* 0..93 of radix 94 and the separator.
Charset95 == [i \in 1..95 |-> IF i <= 2 THEN 31 + i ELSE 32 + i]

\* The 20 digits of 2^128 + 65 in radix 94, and those of 65.
WrappingDigits == <<11,2,39,93,48,54,26,71,26,72,5,22,69,68,85,9,9,80,11,79>>
PaddedDigits == <<0,0,0,0,0,0,0,0,0,0,0,0,0,0,0,0,0,0,0,65>>

Numeral95(digits) == [i \in 1..Len(digits) |-> Charset95[digits[i] + 1]]

\* Segments of 20 characters at radix 94, alone and after a short segment.
LongSegmentInputs ==
    { [html |-> Invocation(c, Charset95, bu, <<9,4>>), plain |-> NoPlain] :
        c \in { Numeral95(WrappingDigits), Numeral95(PaddedDigits),
                Numeral95(<<66>>) \o <<Charset95[95]>> \o Numeral95(WrappingDigits) },
        bu \in {<<0>>, <<1>>} }

NoResult == [kind |-> "Pending", value |-> <<>>, err |-> "", tried |-> <<>>]

IdleResolve ==
    /\ kwik_url = <<>> /\ pc = "idle" /\ fetches = <<>> /\ responses = <<>>
    /\ steps = <<>> /\ tried = <<>> /\ result = NoResult

NoPackerInput == [packed |-> <<>>, base |-> 0, keywords |-> <<>>]

IdlePacker == pin = NoPackerInput /\ pout = Pending

IdleExtract == xin = <<>> /\ xout = Pending

\* Option<T>: None, or Some(x).
None == <<>>
Some(x) == <<x>>

\* App::new(): the library and the history are what library.json and
\* history.json hold; every ListState starts without selection. The fields
\* client, status_message, is_loading and animation_tick are left out: no
\* handler reads them.
NewApp(library, history) ==
    [current_screen |-> "Search",
     search_query |-> <<>>,
     search_results |-> <<>>,
     search_list_state |-> None,
     selected_anime |-> None,
     episode_list |-> <<>>,
     episode_list_state |-> None,
     ep_page |-> 1,
     ep_total_pages |-> 1,
     library |-> library,
     library_list_state |-> None,
     history |-> history,
     history_list_state |-> None,
     available_streams |-> <<>>,
     quality_list_state |-> None,
     temp_play_data |-> None,
     previous_screen |-> None,
     is_searching |-> FALSE]

NotRecorded == [called |-> FALSE]

\* Both files hold what App::new() loaded from them.
InSync == [library |-> TRUE, history |-> TRUE]

IdleApp ==
    /\ app = NewApp(<<>>, <<>>) /\ recorded = NotRecorded
    /\ running = FALSE /\ keys = 0 /\ render_clamps = FALSE
    /\ files = InSync

InitCipher ==
    /\ overflow_checks \in BOOLEAN
    /\ \E i \in EncodedInputs \cup RawInputs \cup LongSegmentInputs :
          cin = i.html /\ plain = i.plain
    /\ cout = Pending
    /\ IdlePacker
    /\ IdleExtract
    /\ IdleApp
    /\ IdleResolve

\* A call of unpack_custom_kwik(html).
Unpack ==
    /\ cout = Pending
    /\ cout' = UnpackCustomKwik(cin, overflow_checks)
    /\ UNCHANGED <<overflow_checks, cin, plain, packerVars, extractVars, resolveVars, appVars>>

NextCipher == Unpack

SpecCipher == InitCipher /\ [][NextCipher]_vars

---------------------------------------------------------------------------
(* SpecPacker: unpack_dean_edwards on bounded inputs *)

MaxPackedLen == 3

PackedAlphabet == {Ord("0"), Ord("1"), Ord("a"), Ord("Z"), Ord("_"), Ord(".")}

\* Tokens whose base-16 and base-62 values pass 2^64.
LongTokens ==
    { Str(<<"1","0","0","0","0","0","0","0","0","0","0","0","0","0","0","0","0">>),
      Str(<<"Z","Z","Z","Z","Z","Z","Z","Z","Z","Z","Z">>),
      Str(<<"a",".","1","0","0","0","0","0","0","0","0","0","0","0","0","0","0","0","1">>) }

PackerBases == {0, 1, 2, 11, 16, 62, 100}

Dictionaries ==
    { << <<>> >>,
      << Str(<<"x">>) >>,
      << <<>>, Str(<<"y"," ","y">>), Str(<<"1">>) >>,
      [i \in 1..12 |-> IF i = 11 THEN Str(<<"k">>) ELSE IF i = 3 THEN <<>> ELSE Str(<<"w">>)] }

PackerInputs ==
    { [packed |-> p, base |-> b, keywords |-> k] :
        p \in SeqsUpTo(PackedAlphabet, MaxPackedLen) \cup LongTokens,
        b \in PackerBases, k \in Dictionaries }

IdleCipher == cin = NoInvocation /\ plain = NoPlain /\ cout = Pending

InitPacker ==
    /\ overflow_checks \in BOOLEAN
    /\ pin \in PackerInputs
    /\ pout = Pending
    /\ IdleCipher
    /\ IdleExtract
    /\ IdleApp
    /\ IdleResolve

\* A call of unpack_dean_edwards(packed, base, keywords).
UnpackPacked ==
    /\ pout = Pending
    /\ pin # NoPackerInput
    /\ pout' = UnpackDeanEdwards(pin.packed, pin.base, pin.keywords, overflow_checks)
    /\ UNCHANGED <<overflow_checks, pin, cipherVars, extractVars, resolveVars, appVars>>

NextPacker == UnpackPacked

SpecPacker == InitPacker /\ [][NextPacker]_vars

---------------------------------------------------------------------------
(* extract_m3u8 on its own *)

MaxTokens == 3

\* The texts are made of these pieces: a manifest URL, the start of a URL,
\* the manifest suffix, what may delimit a URL, and other text.
TextTokens ==
    { Str(<<"h","t","t","p",":","/","/","a",".","m","3","u","8">>),
      Str(<<"h","t","t","p","s",":","/","/","b">>),
      Str(<<".","m","3","u","8">>),
      Str(<<" ">>), Str(<<"'">>), Str(<<"\"">>), Str(<<"x","=">>) }

Texts == {Concat(ts) : ts \in SeqsUpTo(TextTokens, MaxTokens)}

InitExtract ==
    /\ overflow_checks \in BOOLEAN
    /\ xin \in Texts
    /\ xout = Pending
    /\ IdleCipher
    /\ IdlePacker
    /\ IdleResolve
    /\ IdleApp

\* A call of extract_m3u8(text).
Extract ==
    /\ xout = Pending
    /\ xout' = ExtractM3u8(xin)
    /\ UNCHANGED <<overflow_checks, xin, cipherVars, packerVars, resolveVars, appVars>>

NextExtract == Extract

SpecExtract == InitExtract /\ [][NextExtract]_vars

---------------------------------------------------------------------------
(* Spec: extract_stream_url *)

MaxPackers == 2

KwikReferer == Str(<<"h","t","t","p","s",":","/","/","k","w","i","k",".","c","x","/">>)

Statuses == {200, 404}

\* What a GET comes back with: send() fails, text() fails, or a body with a status.
TransportError == [kind |-> "send_error", status |-> 0, body |-> Page(NoInvocation, <<>>, <<>>)]
BodyError == [kind |-> "text_error", status |-> 200, body |-> Page(NoInvocation, <<>>, <<>>)]
Response(status, body) == [kind |-> "response", status |-> status, body |-> body]

\* The cipher invocation that decodes to text.
Ciphered(text) ==
    Invocation(Encode(text, Str(<<"0","1","2","3","4","5","6","7","8","9",",">>), 7, 10), Str(<<"0","1","2","3","4","5","6","7","8","9",",">>), Digits(7), Digits(10))

MalformedRadix == Invocation(Str(<<"a">>), Str(<<"a","b">>), <<0>>, <<2>>)
MalformedOffset == Invocation(Str(<<"a">>), Str(<<"a","b">>), <<NonAsciiDigit>>, <<1>>)

EmbedAssignment == Str(<<"v","a","r"," ","u","r","l"," ","="," ","'","/","e","/","a","b","c","1","2","3","'",";">>)
StreamInCipher == Str(<<"s","r","c","=","'","h","t","t","p","s",":","/","/","c",".","d","/","v",".","m","3","u","8","'">>)
Junk == Str(<<"n","o","t","h","i","n","g">>)

KwikUrls == { Str(<<"h","t","t","p","s",":","/","/","k","w","i","k",".","c","x","/","f","/","a","b","c","1","2","3">>), Str(<<"h","t","t","p","s",":","/","/","k","w","i","k",".","c","x","/","e","/","a","b","c","1","2","3">>), Str(<<"h","t","t","p","s",":","/","/","k","w","i","k",".","c","x","/","f","/">>) }

EntryPages ==
    { Page(c, <<>>, raw) :
        c \in {NoInvocation, Ciphered(EmbedAssignment), Ciphered(StreamInCipher),
               Ciphered(Junk), MalformedRadix, MalformedOffset},
        raw \in {<<>>, Str(<<"<","a"," ","h","r","e","f","=","\"","h","t","t","p","s",":","/","/","k","w","i","k",".","c","x","/","e","/","x","y","z","9","\"",">">>)} }

Bar == Ord("|")

\* Packer invocations: two that decode to text with a stream URL, one that
\* does not, one whose base is above usize.
PackerInvocations ==
    { PackerInvocation(Str(<<"0",":","/","/","1",".","2","/","3","/","4",".","5">>), <<1,0>>, Str(<<"h","t","t","p","s","|","c","d","n","|","e","x","a","m","p","l","e","|","v","i","d","e","o","|","m","a","s","t","e","r","|","m","3","u","8">>), Bar),
      PackerInvocation(Str(<<"0","=","'","1",":","/","/","a",".","b","/","x",".","2","'">>), <<3,6>>, Str(<<"v","|","h","t","t","p","|","m","3","u","8">>), Bar),
      PackerInvocation(Str(<<"0"," ","1">>), <<2>>, Str(<<"a","|","b">>), Bar),
      PackerInvocation(Str(<<"0",":","/","/","1",".","2","/","3","/","4",".","5">>), <<1,8,4,4,6,7,4,4,0,7,3,7,0,9,5,5,1,6,1,6>>, Str(<<"h","t","t","p","s","|","c","d","n","|","e","x","a","m","p","l","e","|","v","i","d","e","o","|","m","a","s","t","e","r","|","m","3","u","8">>), Bar) }

EmbedPages ==
    { Page(c, ps, raw) :
        c \in {NoInvocation, Ciphered(StreamInCipher), Ciphered(Junk),
               MalformedRadix, MalformedOffset},
        ps \in SeqsUpTo(PackerInvocations, MaxPackers),
        raw \in {<<>>, Str(<<"h","t","t","p","s",":","/","/","r",".","s","/","t",".","m","3","u","8">>)} }

\* The two decode stages are functions of the page and the build: tabulated
\* over the pages of the model.
FPageDecoding ==
    [html \in EntryPages |-> [checks \in BOOLEAN |-> DecodeKwikFPage(html, checks)]]
EmbedPageDecoding ==
    [html \in EmbedPages |-> [checks \in BOOLEAN |-> DecodeKwikEmbedPage(html, checks)]]

Init ==
    /\ overflow_checks \in BOOLEAN
    /\ kwik_url \in KwikUrls
    /\ pc = "start"
    /\ fetches = <<>>
    /\ responses = <<>>
    /\ steps = <<>>
    /\ tried = <<>>
    /\ result = NoResult
    /\ IdleCipher
    /\ IdlePacker
    /\ IdleExtract
    /\ IdleApp

\* Return that starts the call over after a failure.
Return_Retry(r) ==
    /\ pc' = IF r.kind = "Ok" THEN "done" ELSE "start"
    /\ result' = [r EXCEPT !.tried = <<>>]

\* extract_stream_url returns r (or unwinds with the panic r).
Return(r) ==
    /\ pc' = "done"
    /\ result' = [r EXCEPT !.tried = <<>>]

\* extract_stream_url up to its first await: the client is built and the GET
\* of kwik_url is sent, with the client's default Referer.
Start ==
    /\ pc = "start"
    /\ \E built \in BOOLEAN :
        IF built
        THEN /\ fetches' = Append(fetches, [url |-> kwik_url, referer |-> KwikReferer])
             /\ steps' = Append(steps, "fetch_entry")
             /\ pc' = "await_f_page"
             /\ UNCHANGED result
        ELSE /\ Return(Err(ErrBuild, <<>>))
             /\ UNCHANGED <<fetches, steps>>
    /\ UNCHANGED <<overflow_checks, kwik_url, responses, tried, cipherVars, packerVars,
                   extractVars, appVars>>

\* let embed_url = self.decode_kwik_f_page(&f_page, slug)?, then the GET of
\* https://kwik.cx{embed_url} with kwik_url as Referer, up to its await.
FetchEmbedPage(embed_url) ==
    /\ tried' = Append(tried, embed_url.tried)
    /\ IF embed_url.kind = "Ok"
       THEN /\ fetches' = Append(fetches, [url |-> KwikOrigin \o embed_url.value,
                                           referer |-> kwik_url])
            /\ steps' = steps \o <<"decode_entry", "fetch_embed">>
            /\ pc' = "await_e_page"
            /\ UNCHANGED result
       ELSE /\ Return(embed_url)
            /\ steps' = Append(steps, "decode_entry")
            /\ UNCHANGED fetches

\* From the answer to the first GET to the second await: the slug, the decoding
\* of the /f/ page, the GET of the embed page with kwik_url as Referer.
FPageResponse ==
    /\ pc = "await_f_page"
    /\ \E r \in {TransportError, BodyError}
             \cup {Response(st, b) : st \in Statuses, b \in EntryPages} :
        /\ responses' = Append(responses, r)
        /\ IF r.kind # "response"
           THEN /\ Return(Err(ErrReqwest, <<>>))
                /\ UNCHANGED <<fetches, steps, tried>>
           ELSE IF ~HasSlug(kwik_url)
           THEN /\ Return(Err(ErrNoSlug, <<>>))
                /\ UNCHANGED <<fetches, steps, tried>>
           ELSE FetchEmbedPage(FPageDecoding[r.body][overflow_checks])
    /\ UNCHANGED <<overflow_checks, kwik_url, cipherVars, packerVars, extractVars, appVars>>

\* let stream_url = self.decode_kwik_embed_page(&e_page)?; Ok(stream_url)
ReturnStreamUrl(stream_url) ==
    /\ tried' = Append(tried, stream_url.tried)
    /\ steps' = Append(steps, "decode_embed")
    /\ Return(stream_url)

\* From the answer to the second GET to the return: the decoding of the embed page.
EPageResponse ==
    /\ pc = "await_e_page"
    /\ \E r \in {TransportError, BodyError}
             \cup {Response(st, b) : st \in Statuses, b \in EmbedPages} :
        /\ responses' = Append(responses, r)
        /\ IF r.kind # "response"
           THEN /\ Return(Err(ErrReqwest, <<>>))
                /\ UNCHANGED <<steps, tried>>
           ELSE ReturnStreamUrl(EmbedPageDecoding[r.body][overflow_checks])
    /\ UNCHANGED <<overflow_checks, kwik_url, fetches, cipherVars, packerVars, extractVars,
                   appVars>>

Next == Start \/ FPageResponse \/ EPageResponse

Spec == Init /\ [][Next]_vars

---------------------------------------------------------------------------
(* The watch history of src/src/main.rs: App::record_history *)

HistoryCap == 50

\* An Anime is told from another by its session; its other fields are
\* display data.
Anime(session) == [session |-> session]

\* A HistoryItem, without the time stamp last_watched.
HistoryItem(anime, ep_session, ep_num) ==
    [anime |-> anime, episode_session |-> ep_session, last_episode |-> ep_num]

\* self.history.iter().position(|h| h.anime.session == anime.session)
FirstOf(hits) == IF hits = {} THEN None ELSE Some(Leftmost(hits) - 1)
HistoryPosition(history, anime) ==
    FirstOf({i \in 1..Len(history) : history[i].anime.session = anime.session})

\* Vec::remove(pos), Vec::truncate(len)
Remove(v, pos) == [i \in 1..(Len(v) - 1) |-> IF i <= pos THEN v[i] ELSE v[i + 1]]
Truncate(v, len) == IF Len(v) > len THEN SubSeq(v, 1, len) ELSE v

\* if let Some(pos) = ... { self.history.remove(pos); }
HistoryRemoved(history, pos) == IF pos = None THEN history ELSE Remove(history, pos[1])

\* record_history without the cap of 50 entries.
RecordHistory_Uncapped(history, anime, ep_session, ep_num) ==
    <<HistoryItem(anime, ep_session, ep_num)>>
        \o HistoryRemoved(history, HistoryPosition(history, anime))

\* self.history after record_history(anime, ep_session, ep_num).
RecordHistory(history, anime, ep_session, ep_num) ==
    Truncate(<<HistoryItem(anime, ep_session, ep_num)>>
                \o HistoryRemoved(history, HistoryPosition(history, anime)),
             HistoryCap)

\* let _ = Self::save_data(path, &data): the file holds the data, unless the
\* write failed; the failure is dropped.
SaveData(path, written) == [files EXCEPT ![path] = written]

MaxNew == 2

\* The sessions 1..n, watched in the order n, ..., 1.
Watched(n) == [i \in 1..n |-> HistoryItem(Anime(i), 1, 1)]

\* history.json at the start: empty, one entry, one below the cap, at the cap.
InitialHistories == {Watched(n) : n \in {0, 1, HistoryCap - 1, HistoryCap}}

\* What is recorded: the newest, a middle and the oldest entry of a full
\* history, and sessions that are not in it.
Recordable ==
    {Anime(k) : k \in {1, HistoryCap \div 2, HistoryCap}
                       \cup (HistoryCap + 1)..(HistoryCap + MaxNew)}

\* The episode recorded: not the one of the entries history.json held.
EpisodeNums == {2}

InitHistory ==
    /\ overflow_checks = FALSE
    /\ \E h \in InitialHistories : app = NewApp(<<>>, h)
    /\ files = InSync
    /\ recorded = NotRecorded
    /\ running = FALSE /\ keys = 0 /\ render_clamps = FALSE
    /\ IdleCipher
    /\ IdlePacker
    /\ IdleExtract
    /\ IdleResolve

\* A call of record_history(anime, ep_session, ep_num).
RecordHistoryCall ==
    \E anime \in Recordable, ep \in EpisodeNums, written \in BOOLEAN :
        /\ app' = [app EXCEPT !.history = RecordHistory(app.history, anime, ep, ep)]
        /\ recorded' = [called |-> TRUE, anime |-> anime]
        /\ files' = SaveData("history", written)
        /\ UNCHANGED <<overflow_checks, cipherVars, packerVars, extractVars, resolveVars,
                       running, keys, render_clamps>>

NextHistory == RecordHistoryCall

SpecHistory == InitHistory /\ [][NextHistory]_vars

---------------------------------------------------------------------------
(* The terminal UI of src/src/main.rs: run_app and the handlers it calls *)

\* usize::saturating_sub(1)
SaturatingSub1(n) == IF n = 0 THEN 0 ELSE n - 1

\* state.selected().and_then(|i| v.get(i).cloned())
Get(v, selected) ==
    IF selected # None /\ selected[1] < Len(v) THEN Some(v[selected[1] + 1]) ELSE None

\* KeyCode::Up and KeyCode::Down on a list of len entries: the new selection.
SelectUp(selected, len) ==
    Some(IF selected = None THEN 0
         ELSE IF selected[1] = 0 THEN SaturatingSub1(len)
         ELSE selected[1] - 1)
SelectDown(selected, len) ==
    Some(IF selected = None THEN 0
         ELSE IF selected[1] >= SaturatingSub1(len) THEN 0
         ELSE selected[1] + 1)

\* f.render_stateful_widget(list, area, state): a List widget that adjusts
\* the selection drops it when there are no items and moves it to the last
\* item when it is out of range; one that does not leaves the state alone.
RenderList(items, selected, clamps) ==
    IF ~clamps THEN selected
    ELSE IF items = <<>> THEN None
    ELSE IF selected # None /\ selected[1] >= Len(items) THEN Some(Len(items) - 1)
    ELSE selected

\* terminal.draw(|f| ui(f, &mut app)): the list of the current screen is
\* rendered with its ListState; the library and the history only when they
\* are not empty.
Draw(a, clamps) ==
    CASE a.current_screen = "SearchResults" ->
            [a EXCEPT !.search_list_state = RenderList(a.search_results, @, clamps)]
      [] a.current_screen = "Library" /\ a.library # <<>> ->
            [a EXCEPT !.library_list_state = RenderList(a.library, @, clamps)]
      [] a.current_screen = "History" /\ a.history # <<>> ->
            [a EXCEPT !.history_list_state = RenderList(a.history, @, clamps)]
      [] a.current_screen = "EpisodeList" ->
            [a EXCEPT !.episode_list_state = RenderList(a.episode_list, @, clamps)]
      [] a.current_screen = "QualitySelection" ->
            [a EXCEPT !.quality_list_state = RenderList(a.available_streams, @, clamps)]
      [] OTHER -> a

\* The anime toggle_library is about: the selected entry of the current screen.
HistoryAnime(item) == IF item = None THEN None ELSE Some(item[1].anime)
ToggleSelection(a) ==
    CASE a.current_screen = "SearchResults" -> Get(a.search_results, a.search_list_state)
      [] a.current_screen = "Library" -> Get(a.library, a.library_list_state)
      [] a.current_screen = "History" -> HistoryAnime(Get(a.history, a.history_list_state))
      [] OTHER -> None

\* self.library.iter().position(|f| f.session == anime.session)
LibraryPosition(library, anime) ==
    FirstOf({i \in 1..Len(library) : library[i].session = anime.session})

\* if let Some(pos) = ... { self.library.remove(pos) } else { self.library.push(anime) }
Toggled(library, anime, pos) ==
    IF pos # None THEN Remove(library, pos[1]) ELSE Append(library, anime)

\* toggle_library for the anime found (None: nothing happens).
ToggleLibraryOf(a, anime) ==
    IF anime = None THEN a
    ELSE [a EXCEPT !.library = Toggled(@, anime[1], LibraryPosition(@, anime[1]))]

\* toggle_library(): the App after it. No ListState is touched.
ToggleLibrary(a) == ToggleLibraryOf(a, ToggleSelection(a))

\* The keys '/', 'l' and 'h'.
StartSearching(a) == [a EXCEPT !.is_searching = TRUE, !.search_query = <<>>]
GoLibrary(a) == [a EXCEPT !.current_screen = "Library", !.library_list_state = Some(0)]
GoHistory(a) == [a EXCEPT !.current_screen = "History", !.history_list_state = Some(0)]

\* What the client's calls come back with.
Failed == [ok |-> FALSE]
Answer(data) == [ok |-> TRUE, data |-> data]

\* perform_search(), the client answering res.
PerformSearch(a, res) ==
    IF a.search_query = <<>> \/ ~res.ok THEN [a EXCEPT !.is_searching = FALSE]
    ELSE [a EXCEPT !.is_searching = FALSE,
                   !.search_results = res.data,
                   !.current_screen = "SearchResults",
                   !.search_list_state = Some(0)]

\* load_episodes(page), the client answering res.
LoadEpisodes(a, page, res) ==
    IF a.selected_anime = None \/ ~res.ok THEN a
    ELSE [a EXCEPT !.episode_list = res.data.episodes,
                   !.ep_page = res.data.page,
                   !.ep_total_pages = res.data.total_pages,
                   !.current_screen = "EpisodeList",
                   !.episode_list_state = Some(0)]

\* app.selected_anime = Some(anime); app.load_episodes(1).await, for the
\* entry selected (None: nothing happens).
OpenAnime(a, anime, res) ==
    IF anime = None THEN a
    ELSE LoadEpisodes([a EXCEPT !.selected_anime = anime], 1, res)

\* prepare_stream_selection(anime, ep_session, ep_num), the client answering res.
PrepareStreamSelection(a, anime, ep_session, ep_num, res) ==
    IF ~res.ok \/ res.data = <<>> THEN [a EXCEPT !.selected_anime = Some(anime)]
    ELSE [a EXCEPT !.selected_anime = Some(anime),
                   !.available_streams = res.data,
                   !.quality_list_state = Some(0),
                   !.temp_play_data = Some(<<anime, ep_session, ep_num>>),
                   !.previous_screen = Some(a.current_screen),
                   !.current_screen = "QualitySelection"]

\* play_episode(), ep_data being the selected episode.
PlayEpisodeOf(a, ep_data, res) ==
    IF ep_data = None \/ a.selected_anime = None THEN a
    ELSE PrepareStreamSelection(a, a.selected_anime[1], ep_data[1].session,
                                ep_data[1].episode, res)
PlayEpisode(a, res) == PlayEpisodeOf(a, Get(a.episode_list, a.episode_list_state), res)

\* KeyCode::Enter on the history screen, item being the selected entry.
ResumeOf(a, item, res) ==
    IF item = None THEN a
    ELSE PrepareStreamSelection(a, item[1].anime, item[1].episode_session,
                                item[1].last_episode, res)

\* KeyCode::Esc on the episode list.
LeaveEpisodeList(a) ==
    [a EXCEPT !.current_screen = IF a.search_results # <<>> THEN "SearchResults"
                                 ELSE IF a.library # <<>> THEN "Library"
                                 ELSE "Search"]

\* KeyCode::Esc on the quality selection, and the end of play_selected_stream.
BackToPrevious(a) ==
    [a EXCEPT !.current_screen = IF a.previous_screen # None THEN a.previous_screen[1]
                                 ELSE "EpisodeList"]
AfterPlaying(a) ==
    IF a.previous_screen # None THEN [a EXCEPT !.current_screen = a.previous_screen[1]]
    ELSE a

\* What play_selected_stream plays: the selected stream with temp_play_data.
PlayData(a) ==
    IF Get(a.available_streams, a.quality_list_state) = None THEN None
    ELSE a.temp_play_data

MaxList == 2
MaxQuery == 1
MaxKeys == 5

\* What the catalog answers: up to MaxList results, episodes on one of two
\* pages, streams; or a failure.
Animes(n) == [i \in 1..n |-> Anime(i)]
Episodes(n) == [i \in 1..n |-> [session |-> i, episode |-> i]]
Streams(n) == [i \in 1..n |-> [name |-> i, link |-> i]]

SearchAnswers == {Failed} \cup {Answer(Animes(n)) : n \in 0..MaxList}
EpisodeAnswers(page) ==
    {Failed} \cup {Answer([episodes |-> Episodes(n), page |-> page, total_pages |-> t]) :
                     n \in 0..MaxList, t \in {1, 2}}
StreamAnswers == {Failed} \cup {Answer(Streams(n)) : n \in 0..MaxList}

InitApp ==
    /\ overflow_checks = FALSE
    /\ \E l \in 0..MaxList, h \in 0..MaxList : app = NewApp(Animes(l), Watched(h))
    /\ recorded = NotRecorded
    /\ running = TRUE
    /\ keys = 0
    /\ render_clamps \in BOOLEAN
    /\ files = InSync
    /\ IdleCipher
    /\ IdlePacker
    /\ IdleExtract
    /\ IdleResolve

\* The App as the handler of the key finds it: after the draw of this turn
\* of the loop.
Drawn == Draw(app, render_clamps)

\* One turn of the loop of run_app in which a key is read.
KeyRead ==
    /\ running
    /\ keys < MaxKeys
    /\ keys' = keys + 1
    /\ UNCHANGED <<overflow_checks, cipherVars, packerVars, extractVars, resolveVars,
                   render_clamps>>

\* A handler that changes the App only.
Becomes(a) == app' = a /\ UNCHANGED <<recorded, files, running>>

\* KeyCode::Char('f'): toggle_library(), the library saved when it changed.
ToggleKey ==
    /\ app' = ToggleLibrary(Drawn)
    /\ IF ToggleSelection(Drawn) = None THEN files' = files
       ELSE \E written \in BOOLEAN : files' = SaveData("library", written)
    /\ UNCHANGED <<recorded, running>>

\* self.record_history(anime, ep_session, ep_num) for the play data.
Recorded(a, play) == [a EXCEPT !.history = RecordHistory(@, play[1], play[2], play[3])]

\* play_selected_stream(): nothing without a selected stream or when the
\* stream URL cannot be extracted; else the history is recorded and mpv
\* launched, and a terminal error there ends run_app.
PlaySelectedStream ==
    IF PlayData(Drawn) = None THEN Becomes(Drawn)
    ELSE \/ Becomes(Drawn)
         \/ \E written, launched \in BOOLEAN :
              /\ app' = IF launched THEN AfterPlaying(Recorded(Drawn, PlayData(Drawn)[1]))
                        ELSE Recorded(Drawn, PlayData(Drawn)[1])
              /\ recorded' = [called |-> TRUE, anime |-> PlayData(Drawn)[1][1]]
              /\ files' = SaveData("history", written)
              /\ running' = launched

\* A key read while the search box is edited.
KeyWhileSearching ==
    /\ KeyRead
    /\ app.is_searching
    /\ \/ \E res \in SearchAnswers : Becomes(PerformSearch(Drawn, res))
       \/ Becomes([Drawn EXCEPT !.is_searching = FALSE])
       \/ Becomes([Drawn EXCEPT !.search_query = SubSeq(@, 1, SaturatingSub1(Len(@)))])
       \/ /\ Len(app.search_query) < MaxQuery
          /\ Becomes([Drawn EXCEPT !.search_query = Append(@, Ord("a"))])

\* A key read on the start screen; Esc ends run_app.
KeyOnSearch ==
    /\ KeyRead
    /\ ~app.is_searching /\ app.current_screen = "Search"
    /\ \/ Becomes(StartSearching(Drawn))
       \/ Becomes(GoLibrary(Drawn))
       \/ Becomes(GoHistory(Drawn))
       \/ app' = Drawn /\ running' = FALSE /\ UNCHANGED <<recorded, files>>

KeyOnSearchResults ==
    /\ KeyRead
    /\ ~app.is_searching /\ app.current_screen = "SearchResults"
    /\ \/ Becomes([Drawn EXCEPT !.search_list_state = SelectUp(@, Len(Drawn.search_results))])
       \/ Becomes([Drawn EXCEPT !.search_list_state = SelectDown(@, Len(Drawn.search_results))])
       \/ ToggleKey
       \/ Becomes(StartSearching(Drawn))
       \/ Becomes(GoLibrary(Drawn))
       \/ Becomes(GoHistory(Drawn))
       \/ \E res \in EpisodeAnswers(1) :
            Becomes(OpenAnime(Drawn, Get(Drawn.search_results, Drawn.search_list_state), res))
       \/ Becomes([Drawn EXCEPT !.current_screen = "Search"])

KeyOnLibrary ==
    /\ KeyRead
    /\ ~app.is_searching /\ app.current_screen = "Library"
    /\ \/ Becomes([Drawn EXCEPT !.library_list_state = SelectUp(@, Len(Drawn.library))])
       \/ Becomes([Drawn EXCEPT !.library_list_state = SelectDown(@, Len(Drawn.library))])
       \/ ToggleKey
       \/ Becomes(StartSearching(Drawn))
       \/ Becomes(GoHistory(Drawn))
       \/ \E res \in EpisodeAnswers(1) :
            Becomes(OpenAnime(Drawn, Get(Drawn.library, Drawn.library_list_state), res))
       \/ Becomes([Drawn EXCEPT !.current_screen = "Search"])

KeyOnHistory ==
    /\ KeyRead
    /\ ~app.is_searching /\ app.current_screen = "History"
    /\ \/ Becomes([Drawn EXCEPT !.history_list_state = SelectUp(@, Len(Drawn.history))])
       \/ Becomes([Drawn EXCEPT !.history_list_state = SelectDown(@, Len(Drawn.history))])
       \/ ToggleKey
       \/ Becomes(StartSearching(Drawn))
       \/ Becomes(GoLibrary(Drawn))
       \/ \E res \in EpisodeAnswers(1) :
            Becomes(OpenAnime(Drawn,
                              HistoryAnime(Get(Drawn.history, Drawn.history_list_state)), res))
       \/ \E res \in StreamAnswers :
            Becomes(ResumeOf(Drawn, Get(Drawn.history, Drawn.history_list_state), res))
       \/ Becomes([Drawn EXCEPT !.current_screen = "Search"])

KeyOnEpisodeList ==
    /\ KeyRead
    /\ ~app.is_searching /\ app.current_screen = "EpisodeList"
    /\ \/ Becomes([Drawn EXCEPT !.episode_list_state = SelectUp(@, Len(Drawn.episode_list))])
       \/ Becomes([Drawn EXCEPT !.episode_list_state = SelectDown(@, Len(Drawn.episode_list))])
       \/ IF app.ep_page > 1
          THEN \E res \in EpisodeAnswers(app.ep_page - 1) :
                 Becomes(LoadEpisodes(Drawn, app.ep_page - 1, res))
          ELSE Becomes(Drawn)
       \/ IF app.ep_page < app.ep_total_pages
          THEN \E res \in EpisodeAnswers(app.ep_page + 1) :
                 Becomes(LoadEpisodes(Drawn, app.ep_page + 1, res))
          ELSE Becomes(Drawn)
       \/ Becomes(StartSearching(Drawn))
       \/ \E res \in StreamAnswers : Becomes(PlayEpisode(Drawn, res))
       \/ Becomes(LeaveEpisodeList(Drawn))

KeyOnQualitySelection ==
    /\ KeyRead
    /\ ~app.is_searching /\ app.current_screen = "QualitySelection"
    /\ \/ Becomes([Drawn EXCEPT !.quality_list_state = SelectUp(@, Len(Drawn.available_streams))])
       \/ Becomes([Drawn EXCEPT !.quality_list_state = SelectDown(@, Len(Drawn.available_streams))])
       \/ PlaySelectedStream
       \/ Becomes(BackToPrevious(Drawn))

\* A turn of the loop without a key, or with a key the screen has no binding
\* for: the draw only.
Tick ==
    /\ running
    /\ app' = Drawn
    /\ UNCHANGED <<overflow_checks, cipherVars, packerVars, extractVars, resolveVars,
                   recorded, running, keys, render_clamps, files>>

NextApp ==
    \/ KeyWhileSearching \/ KeyOnSearch \/ KeyOnSearchResults \/ KeyOnLibrary
    \/ KeyOnHistory \/ KeyOnEpisodeList \/ KeyOnQualitySelection \/ Tick

SpecApp == InitApp /\ [][NextApp]_vars

(* ======================================================================= *)
(* Claims                                                                  *)
(* ======================================================================= *)

IsMalformedCipherParameters(r) == r.kind = "Err" /\ r.err = "ParseIntError"

RadixOutOfBounds(html) ==
    /\ html.present
    /\ ParseInt(html.bu, I64Max).ok
    /\ ParseInt(html.fo, U32Max).ok
    /\ ParseInt(html.fo, U32Max).value >= Len(html.mu)

\* C1: a matched cipher invocation whose radix is not a valid index into the
\* charset makes the decoder return the error MalformedCipherParameters: no
\* panic, no decoded text.
C1_RadixOutOfBoundsIsMalformed ==
    (cout # Pending /\ RadixOutOfBounds(cin)) => IsMalformedCipherParameters(cout)

DistinctPrefix(charset, radix) ==
    \A i, j \in 1..(radix + 1) : i # j => charset[i] # charset[j]

\* C5 as stated: for every charset, offset and radix < len(charset), decoding
\* the forward encoding of a byte sequence gives back the bytes.
C5_RoundTripAnyCharset ==
    (cout # Pending /\ plain.known) => cout.bytes = plain.bytes

\* C5 amended: when the digit characters charset[0..radix-1] and the separator
\* charset[radix] are pairwise distinct (radix >= 2), the decoded bytes are the
\* original bytes, for all byte values 0..=255; the returned text is those
\* bytes when they are ASCII.
C5_RoundTripDistinctCharset ==
    (cout # Pending /\ plain.known /\ DistinctPrefix(plain.charset, plain.radix)) =>
        /\ cout.bytes = plain.bytes
        /\ plain.bytes # <<>> => cout.kind = "Some"
        /\ (\A i \in 1..Len(plain.bytes) : plain.bytes[i] < 128) => cout.text = plain.bytes

C5_Witness ==
    /\ cout # Pending /\ cout.kind = "Some"
    /\ plain.known /\ DistinctPrefix(plain.charset, plain.radix)
    /\ plain.offset > 0
    /\ Len(plain.bytes) = 2 /\ plain.bytes[1] = 255 /\ plain.bytes[2] = 0
    /\ cout.bytes = plain.bytes

RECURSIVE RefIndex(_, _, _, _)
\* The base-`base` value of a token of digits below base, as far as indexing a
\* dictionary of n entries needs it: the value itself below n, else n.
RefIndex(token, base, n, acc) ==
    IF token = <<>> THEN acc
    ELSE LET v == acc * base + Position(Chars62, Head(token)) IN
         RefIndex(Tail(token), base, n, IF v >= n THEN n ELSE v)

RefToken(t, base, D) ==
    LET digits == \A i \in 1..Len(t) :
                     Position(Chars62, t[i]) >= 0 /\ Position(Chars62, t[i]) < base
        v == RefIndex(t, base, Len(D), 0)
    IN  IF digits /\ v < Len(D) /\ D[v + 1] # <<>> THEN D[v + 1] ELSE t

\* The maximal runs of word characters of s and the text between them, in order.
IsRunStart(s, i) == IsWordChar(s[i]) /\ (i = 1 \/ ~IsWordChar(s[i - 1]))
IsRunEnd(s, j) == IsWordChar(s[j]) /\ (j = Len(s) \/ ~IsWordChar(s[j + 1]))
RunFrom(s, i) == CHOOSE j \in i..Len(s) : IsRunEnd(s, j) /\ \A k \in i..j : IsWordChar(s[k])

RefSubstitute(s, base, D) ==
    Concat([i \in 1..Len(s) |->
              IF IsRunStart(s, i) THEN RefToken(SubSeq(s, i, RunFrom(s, i)), base, D)
              ELSE IF IsWordChar(s[i]) THEN <<>>
              ELSE <<s[i]>>])

\* C6: for every packed string, dictionary and base, the packer decoder
\* returns the reference substitution: a maximal run of word characters is
\* replaced by D[v] exactly when all its characters are digits below base, its
\* value v indexes D and D[v] is not empty; all else is copied in order.
C6_PackerEqualsReference ==
    pout # Pending =>
        /\ pout.kind = "Ok"
        /\ pout.text = RefSubstitute(pin.packed, pin.base, pin.keywords)

\* C6 restricted to the tokens whose value fits the machine word.
C6_PackerEqualsReferenceShortTokens ==
    (pout # Pending /\ pin.packed \notin LongTokens) =>
        /\ pout.kind = "Ok"
        /\ pout.text = RefSubstitute(pin.packed, pin.base, pin.keywords)

---------------------------------------------------------------------------
(* Claims about extract_stream_url (resolve) *)

FetchFailed(r) == r.kind = "Err" /\ r.err = ErrReqwest
NoStreamUrl(r) == r.kind = "Err" /\ r.err = ErrNoM3u8

NonSuccess(r) == r.kind # "response" \/ r.status \notin 200..299

\* The embed page, once the second GET came back with a body.
HasEmbedPage == Len(responses) = 2 /\ responses[2].kind = "response"
EmbedPage == responses[2].body

Count(x, seq) == Cardinality({i \in 1..Len(seq) : seq[i] = x})

\* C2: a fetch that comes back with a non-success status or a transport error
\* ends resolve with FetchFailed; its body reaches no decoder and no fetch
\* follows it. (Stated for the hosting-page URLs that hold a segment /f/<slug>.)
C2_NonSuccessIsFetchFailed ==
    \A k \in 1..Len(responses) :
        (HasSlug(kwik_url) /\ NonSuccess(responses[k])) =>
            /\ pc = "done"
            /\ FetchFailed(result)
            /\ Len(tried) < k
            /\ Len(fetches) = k

\* C3: when the embed HTML holds a packer invocation, resolve returns no
\* failure before the packer decoder was run on the page, whatever the cipher
\* decoder made of it.
C3_PackerTriedBeforeAnyFailure ==
    (pc = "done" /\ HasEmbedPage /\ EmbedPage.packers # <<>> /\ result.kind = "Err") =>
        Count("packer_re", tried[2]) = 1

\* C4: on an embed page without a cipher invocation the cipher decoder's
\* answer is "not present", no error: the packer decoder is run next, and
\* NoStreamUrl is reported only after every packer invocation was decoded.
C4_NotPresentFallsThroughToPacker ==
    (pc = "done" /\ HasEmbedPage /\ ~EmbedPage.cipher.present) =>
        /\ Len(tried[2]) >= 2
        /\ tried[2][1] = "cipher" /\ tried[2][2] = "packer_re"
        /\ NoStreamUrl(result) => Count("packer", tried[2]) = Len(EmbedPage.packers)
        /\ EmbedPage.packers = <<>> => NoStreamUrl(result)

C4_Witness ==
    /\ pc = "done" /\ HasEmbedPage /\ ~EmbedPage.cipher.present
    /\ Len(EmbedPage.packers) = 2
    /\ NoStreamUrl(result)
    /\ tried[2] = <<"cipher", "packer_re", "packer", "packer">>

EntryCipherWithEmbedPath == Ciphered(EmbedAssignment)

\* C7: for every hosting-page URL, an entry page whose cipher invocation
\* decodes to  var url = '/e/abc123';  makes resolve send the second GET to
\* <origin>/e/abc123 with the entry-page URL as referrer.
C7_SecondFetchToEmbedPath ==
    (/\ Len(responses) >= 1
     /\ responses[1].kind = "response"
     /\ responses[1].body.cipher = EntryCipherWithEmbedPath) =>
        /\ Len(fetches) = 2
        /\ fetches[2] = [url |-> KwikOrigin \o Str(<<"/","e","/","a","b","c","1","2","3">>), referer |-> kwik_url]
        /\ pc = "await_e_page" \/ Len(responses) = 2

\* C7 for the hosting-page URLs that hold a segment /f/<slug>.
SecondFetchToEmbedPathGivenSlug == HasSlug(kwik_url) => C7_SecondFetchToEmbedPath

\* The stream URL in the decoded text of each packer invocation whose base is a number.
PackerYield ==
    [caps \in PackerInvocations |->
        IF ParseInt(caps.base, UsizeMax).ok
        THEN ExtractM3u8(UnpackDeanEdwards(caps.packed, ParseInt(caps.base, UsizeMax).value,
                                           Split(caps.keywords_str, caps.separator),
                                           FALSE).text)
        ELSE [found |-> FALSE, text |-> <<>>]]

Yielding(packers) == {k \in 1..Len(packers) : PackerYield[packers[k]].found}
FirstYield(packers) ==
    PackerYield[packers[CHOOSE k \in Yielding(packers) : \A j \in Yielding(packers) : k <= j]].text

\* C8: on an embed page without a cipher invocation resolve returns exactly
\* the stream URL of the first packer invocation, in document order, whose
\* decoded text holds one.
C8_FirstYieldingPackerWins ==
    (pc = "done" /\ HasEmbedPage /\ ~EmbedPage.cipher.present
        /\ Yielding(EmbedPage.packers) # {}) =>
        /\ result.kind = "Ok"
        /\ result.value = FirstYield(EmbedPage.packers)

\* C9: when no decode stage of the embed page produces a stream URL, resolve
\* returns NoStreamUrl, no other error, and does not abort. (Stated for the
\* pages whose cipher invocation, if any, has well-formed parameters.)
C9_OnlyNoStreamUrl ==
    (pc = "done" /\ HasEmbedPage /\ result.kind # "Ok"
        /\ EmbedPage.cipher \notin {MalformedRadix, MalformedOffset}) =>
        NoStreamUrl(result)

StepOrder == <<"fetch_entry", "decode_entry", "fetch_embed", "decode_embed">>

\* C10: the steps of a run are taken in the order fetch entry, decode entry,
\* fetch embed, decode embed, none twice; at most two GETs, one per page, the
\* second only after the entry decode gave a path; a failure ends the run.
C10_SinglePassInOrder ==
    /\ Len(steps) <= Len(StepOrder)
    /\ steps = SubSeq(StepOrder, 1, Len(steps))
    /\ Len(fetches) <= 2
    /\ Len(fetches) = Count("fetch_entry", steps) + Count("fetch_embed", steps)
    /\ Len(responses) <= Len(fetches)
    /\ Len(fetches) = 2 =>
          /\ Len(tried) >= 1
          /\ FPageDecoding[responses[1].body][overflow_checks].kind = "Ok"
    /\ result.kind \in {"Err", "Panic"} => pc = "done"
    /\ pc = "done" => ~ENABLED Next

C10_Witness ==
    /\ pc = "done" /\ result.kind = "Ok"
    /\ steps = StepOrder
    /\ Len(fetches) = 2 /\ Len(responses) = 2

---------------------------------------------------------------------------
(* Claims about the decode stage of the entry page *)

NoEmbedPath(r) == r.kind = "Err" /\ r.err = ErrNoEmbedUrl

\* The entry page, once the first GET came back with a body.
HasEntryPage == Len(responses) >= 1 /\ responses[1].kind = "response"
EntryPage == responses[1].body

WellFormed(cipher) == cipher \notin {MalformedRadix, MalformedOffset}

\* The embed path in the text a decoded cipher invocation gives, if any.
PathInDecoded(c) ==
    IF c.kind = "Some" THEN UrlRe(c.text) ELSE [found |-> FALSE, text |-> <<>>]

\* Per entry page: the embed path the cipher-decoded text holds, and the one
\* the fallback pattern finds in the raw HTML.
EntryCipherPath == [html \in EntryPages |-> PathInDecoded(UnpackCustomKwik(html.cipher, FALSE))]
EntryFallbackPath == [html \in EntryPages |-> FallbackPath(html.raw)]

\* Per entry page: the cipher decoder returns a failure (not a panic).
EntryCipherFails == [html \in EntryPages |-> UnpackCustomKwik(html.cipher, FALSE).kind = "Err"]

EntryYieldsPath(html) == EntryCipherPath[html].found \/ EntryFallbackPath[html].found

\* C11: an entry page that yields an embed path neither from the
\* cipher-decoded text nor from the fallback pattern ends resolve with
\* NoEmbedPath and without a second fetch, and NoEmbedPath is reported in no
\* other situation. (The first half is stated for the hosting-page URLs with
\* a segment /f/<slug> and the pages whose cipher parameters are well-formed.)
C11_NoEmbedPathExactly ==
    /\ NoEmbedPath(result) =>
          HasEntryPage /\ ~EntryYieldsPath(EntryPage) /\ Len(fetches) = 1
    /\ (/\ HasEntryPage /\ HasSlug(kwik_url) /\ WellFormed(EntryPage.cipher)
        /\ ~EntryYieldsPath(EntryPage)) =>
          pc = "done" /\ NoEmbedPath(result) /\ Len(fetches) = 1

\* C12: the entry-page decode stage only ever produces a relative path that
\* begins with /e/, so the second GET goes to the origin followed by /e/...
C12_SecondFetchIsEmbedPath ==
    Len(fetches) = 2 => MatchAt(fetches[2].url, 1, KwikOrigin \o LitSlashE)

\* C13: when the cipher decoder returns a failure on the entry page
\* (parameters that do not parse) or finds no invocation in it, the fallback pattern is still
\* run over the raw HTML, and the path it finds is the one fetched next.
\* (Stated for the hosting-page URLs with a segment /f/<slug>.)
C13_FallbackAfterCipherFailure ==
    (/\ HasEntryPage /\ HasSlug(kwik_url)
     /\ ~EntryPage.cipher.present \/ EntryCipherFails[EntryPage]
     /\ EntryFallbackPath[EntryPage].found) =>
        /\ Count("fallback", tried[1]) = 1
        /\ Len(fetches) = 2
        /\ fetches[2].url = KwikOrigin \o EntryFallbackPath[EntryPage].text

\* C14: on the entry page the fallback pattern is tried only after the cipher
\* decoder and the packer decoder both answered "not present": never on a
\* page where an invocation of either was found.
C14_FallbackOnlyWithoutLayer ==
    (Len(tried) >= 1 /\ Count("fallback", tried[1]) > 0) =>
        /\ tried[1] = <<"cipher", "packer_re", "fallback">>
        /\ ~EntryPage.cipher.present
        /\ EntryPage.packers = <<>>

---------------------------------------------------------------------------
(* Claims about the decode stage of the embed page *)

\* Per cipher invocation of the embed pages: the stream URL in its decoded text.
StreamInDecoded(c) ==
    IF c.kind = "Some" THEN ExtractM3u8(c.text) ELSE [found |-> FALSE, text |-> <<>>]
EmbedCipherStream ==
    [c \in {html.cipher : html \in EmbedPages} |-> StreamInDecoded(UnpackCustomKwik(c, FALSE))]

\* C15: on the embed page the cipher decoder comes before the packer decoder.
\* When the cipher-decoded text holds a stream URL, resolve returns that URL
\* and consults no packer invocation; the packer decoder is consulted only
\* when it does not, over the invocations of the raw page, and a URL it
\* returns is the one some invocation of the raw page yields.
C15_CipherBeforePacker ==
    (pc = "done" /\ HasEmbedPage) =>
        /\ EmbedCipherStream[EmbedPage.cipher].found =>
              /\ result.kind = "Ok"
              /\ result.value = EmbedCipherStream[EmbedPage.cipher].text
              /\ tried[2] = <<"cipher", "m3u8">>
        /\ Count("packer", tried[2]) > 0 =>
              /\ tried[2][1] = "cipher"
              /\ ~EmbedCipherStream[EmbedPage.cipher].found
              /\ Count("packer", tried[2]) <= Len(EmbedPage.packers)
              /\ result.kind = "Ok" =>
                    \E k \in Yielding(EmbedPage.packers) :
                        result.value = PackerYield[EmbedPage.packers[k]].text

\* An embed page whose cipher-decoded text holds a stream URL and whose first
\* packer invocation yields a different one: the cipher's URL is returned.
C15_Witness ==
    /\ pc = "done" /\ HasEmbedPage
    /\ EmbedCipherStream[EmbedPage.cipher].found
    /\ 1 \in Yielding(EmbedPage.packers)
    /\ PackerYield[EmbedPage.packers[1]].text # EmbedCipherStream[EmbedPage.cipher].text
    /\ result.kind = "Ok"
    /\ result.value = EmbedCipherStream[EmbedPage.cipher].text

\* C20: once the entry page was fetched, a failure resolve returns is one of
\* FetchFailed, MalformedCipherParameters, NoEmbedPath and NoStreamUrl,
\* whatever the shape of the hosting-page URL.
C20_FailuresWithinTaxonomy ==
    (pc = "done" /\ Len(responses) >= 1 /\ result.kind = "Err") =>
        \/ FetchFailed(result)
        \/ IsMalformedCipherParameters(result)
        \/ NoEmbedPath(result)
        \/ NoStreamUrl(result)

---------------------------------------------------------------------------
(* Claims about the width of the accumulators *)

\* C19: in unpack_dean_edwards the accumulation value = value * base + pos
\* never exceeds the machine word, whatever the length of the token, and the
\* decoding never aborts on a long token.
C19_TokenValueNeverWraps ==
    pout # Pending =>
        /\ pout.kind = "Ok"
        /\ ~ReplaceAll(pin.packed, 1, pin.base, pin.keywords).overflow

\* A matched invocation whose offset and radix parse and whose radix indexes
\* the charset.
ValidParameters(html) ==
    /\ html.present
    /\ ParseInt(html.bu, I64Max).ok
    /\ ParseInt(html.fo, U32Max).ok
    /\ ParseInt(html.fo, U32Max).value < Len(html.mu)

OffsetOf(html) == ParseInt(html.bu, I64Max).value
RadixOf(html) == ParseInt(html.fo, U32Max).value
SegmentsOf(html) == Split(html.cipher, html.mu[RadixOf(html) + 1])

\* The segments whose value passes 2^128 on the way.
Overflowing(html) ==
    { k \in 1..Len(SegmentsOf(html)) :
        SegmentValue(SegmentsOf(html)[k], html.mu, RadixOf(html), FALSE,
                     [limbs |-> Zero(U128Limbs), overflow |-> FALSE]).overflow }

\* C18: for segments of up to 20 characters at a radix up to 94 the
\* accumulation decimal = decimal * radix + pos never passes the 128 bits of
\* the accumulator, and the decoder does not abort.
C18_DecimalNeverOverflows ==
    (/\ cout # Pending /\ ValidParameters(cin) /\ RadixOf(cin) <= 94
     /\ \A k \in 1..Len(SegmentsOf(cin)) : Len(SegmentsOf(cin)[k]) <= 20) =>
        /\ cout.kind = "Some"
        /\ Overflowing(cin) = {}

---------------------------------------------------------------------------
(* Claims about the decoded bytes of unpack_custom_kwik *)

\* One step of the mathematical fold, as far as the test against
\* offset..offset + 255 needs it: the value itself below cap, else cap.
RefDigit(v, radix, cap, pos) ==
    IF pos < 0 THEN v
    ELSE IF v * radix + pos >= cap THEN cap
    ELSE v * radix + pos

\* The first-occurrence index of ch in the charset, -1 when absent.
RefPosition(charset, ch) ==
    IF \E i \in 1..Len(charset) : charset[i] = ch
    THEN (CHOOSE i \in 1..Len(charset) :
            charset[i] = ch /\ \A j \in 1..(i - 1) : charset[j] # ch) - 1
    ELSE -1

RECURSIVE RefDecimal(_, _, _, _, _)
\* The fold over the first n characters of the segment.
RefDecimal(segment, charset, radix, cap, n) ==
    IF n = 0 THEN 0
    ELSE RefDigit(RefDecimal(segment, charset, radix, cap, n - 1), radix, cap,
                  RefPosition(charset, segment[n]))

RefKept(v, offset) == IF v >= offset /\ v - offset <= 255 THEN <<v - offset>> ELSE <<>>

RefSegment(segment, charset, radix, offset) ==
    IF segment = <<>> THEN <<>>
    ELSE RefKept(RefDecimal(segment, charset, radix, offset + 256, Len(segment)), offset)

RefDecoded(segments, charset, radix, offset) ==
    Concat([k \in 1..Len(segments) |-> RefSegment(segments[k], charset, radix, offset)])

\* C16: for a matched invocation with valid parameters the decoded bytes are,
\* for each non-empty segment in order, the fold value * radix + index over
\* the characters found in the charset, minus the offset, kept when in
\* 0..=255; nothing else is pushed and nothing aborts.
C16_DecodedBytesAreTheFold ==
    (cout # Pending /\ ValidParameters(cin)) =>
        /\ cout.kind = "Some"
        /\ cout.bytes = RefDecoded(SegmentsOf(cin), cin.mu, RadixOf(cin), OffsetOf(cin))

\* C16 restricted to the invocations none of whose segments passes 2^128.
C16_DecodedBytesAreTheFoldNoOverflow ==
    (cout # Pending /\ ValidParameters(cin) /\ Overflowing(cin) = {}) =>
        /\ cout.kind = "Some"
        /\ cout.bytes = RefDecoded(SegmentsOf(cin), cin.mu, RadixOf(cin), OffsetOf(cin))

---------------------------------------------------------------------------
(* Claims about extract_m3u8 *)

\* A manifest URL: http:// or https://, then characters that are no quote
\* and no whitespace, the last of them being .m3u8.
IsUrlChar(c) == c \notin {Quote, Apostrophe} \cup SpaceChars
IsManifestUrl(s, i, j) ==
    /\ MatchAt(s, i, LitHttp) \/ MatchAt(s, i, LitHttps)
    /\ MatchAt(s, j - Len(DotM3u8) + 1, DotM3u8)
    /\ \A k \in i..j : IsUrlChar(s[k])

UrlStarts(s) == {i \in 1..Len(s) : \E j \in i..Len(s) : IsManifestUrl(s, i, j)}

\* The manifest URL that starts at i, up to its last .m3u8.
RefUrlFrom(s, i) ==
    SubSeq(s, i, CHOOSE j \in i..Len(s) :
                    /\ IsManifestUrl(s, i, j)
                    /\ \A k \in (j + 1)..Len(s) : ~IsManifestUrl(s, i, k))

RefExtract(s) ==
    IF UrlStarts(s) = {} THEN [found |-> FALSE, text |-> <<>>]
    ELSE [found |-> TRUE, text |-> RefUrlFrom(s, Leftmost(UrlStarts(s)))]

\* C17: extract_m3u8 returns the leftmost manifest URL of the text and nothing
\* around it, whether the URL stands between single quotes, double quotes or
\* whitespace; what it returns holds no quote and no whitespace; it returns
\* None when the text holds no manifest URL.
C17_ExtractsTheUrlVerbatim ==
    xout # Pending =>
        /\ xout = RefExtract(xin)
        /\ xout.found => \A k \in 1..Len(xout.text) : IsUrlChar(xout.text[k])

\* C17 restricted to the texts without whitespace.
C17_ExtractsTheUrlWithoutWhitespace ==
    (xout # Pending /\ \A k \in 1..Len(xin) : xin[k] \notin SpaceChars) =>
        /\ xout = RefExtract(xin)
        /\ xout.found => \A k \in 1..Len(xout.text) : IsUrlChar(xout.text[k])

---------------------------------------------------------------------------
(* Claims about the watch history *)

DistinctSessions(history) ==
    \A i, j \in 1..Len(history) :
        i # j => history[i].anime.session # history[j].anime.session

\* The entries of the history that are not of the session, in order.
Others(history, session) == SelectSeq(history, LAMBDA h : h.anime.session # session)

\* The first n entries.
Newest(history, n) == [i \in 1..(IF Len(history) < n THEN Len(history) ELSE n) |-> history[i]]

HistoryWithinCap ==
    /\ Len(app.history) <= HistoryCap
    /\ DistinctSessions(app.history)
    /\ recorded.called =>
          app.history # <<>> /\ app.history[1].anime = recorded.anime

\* A step that records: the entries after the first are the former entries
\* of the other sessions, in their order, the oldest dropped beyond the cap.
OthersKeepOrder ==
    app'.history # app.history =>
        Tail(app'.history) =
            Newest(Others(app.history, recorded'.anime.session), HistoryCap - 1)

\* C21: from a history of at most 50 entries with distinct sessions, after
\* any sequence of record_history calls the history has at most 50 entries,
\* no two of the same session, the anime recorded last is at index 0, and the
\* other entries keep their relative order, only the oldest being dropped.
C21_HistoryCappedDistinctOrdered == []HistoryWithinCap /\ [][OthersKeepOrder]_vars

\* A new session recorded on a full history: it is first, the history is
\* still full, and the oldest entry is gone.
C21_Witness ==
    /\ recorded.called /\ recorded.anime.session > HistoryCap
    /\ Len(app.history) = HistoryCap
    /\ app.history[1].anime = recorded.anime
    /\ app.history[2].anime.session = HistoryCap \div 2
    /\ \A i \in 1..Len(app.history) : app.history[i].anime.session # HistoryCap

---------------------------------------------------------------------------
(* Claims about the selections of the list screens *)

SelectionInRange(list, selected) ==
    (list # <<>> /\ selected # None) => selected[1] < Len(list)

AllSelectionsInRange(a) ==
    /\ SelectionInRange(a.search_results, a.search_list_state)
    /\ SelectionInRange(a.library, a.library_list_state)
    /\ SelectionInRange(a.history, a.history_list_state)
    /\ SelectionInRange(a.episode_list, a.episode_list_state)
    /\ SelectionInRange(a.available_streams, a.quality_list_state)

\* C22: in every reachable state of the UI, each of the five lists that is
\* not empty has its selected index below its length, whatever the keys
\* read so far, a toggle_library that removes the selected entry of the
\* library included.
C22_SelectionsWithinLists == AllSelectionsInRange(app)

\* With a List widget that adjusts the selection when it renders, the list
\* of the current screen has its selection in range when a key is handled.
C22_CurrentSelectionWithinListWhenDrawn ==
    render_clamps =>
        CASE app.current_screen = "SearchResults" ->
                SelectionInRange(Drawn.search_results, Drawn.search_list_state)
          [] app.current_screen = "Library" ->
                SelectionInRange(Drawn.library, Drawn.library_list_state)
          [] app.current_screen = "History" ->
                SelectionInRange(Drawn.history, Drawn.history_list_state)
          [] app.current_screen = "EpisodeList" ->
                SelectionInRange(Drawn.episode_list, Drawn.episode_list_state)
          [] app.current_screen = "QualitySelection" ->
                SelectionInRange(Drawn.available_streams, Drawn.quality_list_state)
          [] OTHER -> TRUE

===========================================================================
